---------------------------- MODULE Spec2Model ----------------------------
(***************************************************************************)
(* The CO2 dashboard script src/app.py under Streamlit's execution model:  *)
(* the script is run top to bottom once per session start and once more    *)
(* after every widget change; the two loaders are memoised per process by  *)
(* st.cache_data.  Data frames are sequences of rows (records); floats that *)
(* come out of a division are exact fractions [n, d] with d = 0 standing    *)
(* for inf (n # 0) and nan (n = 0), as IEEE division by zero yields them.   *)
(***************************************************************************)
EXTENDS Integers, Sequences, FiniteSets

VARIABLES
    pc,                  \* position of the running script ("s1".."s7m", "done", "aborted")
    runs,                \* number of script runs started in this process
    payload,             \* the parsed CSV the emissions URL serves
    geojson,             \* the feature list the boundary URL serves
    tieOrder,            \* how this build's quicksort orders equal keys
    cacheData,           \* st.cache_data store of load_data: <<>> or <<df>>
    cacheCoords,         \* st.cache_data store of load_country_coords
    fetches,             \* requests.get calls made so far, per URL
    raised,              \* the exception that ended the current run, "none" if none
    rendered,            \* charts and tables drawn by the current run
    widgets,             \* filter widgets drawn by the current run
    session,             \* widget values kept by the session (FilterState)
    df,                  \* script global df
    year,                \* script global year
    coords,              \* script global coords
    CO2_pipeline,        \* script global (TimeSeries)
    CO2_vs_gdp_pipeline, \* script global (ScatterPoints)
    CO2_source_pipeline, \* script global (SourceBars)
    df_3d,               \* script global (GlobeChoropleth input)
    firstRun             \* history: FilterState and tables of the first completed run

vars == <<pc, runs, payload, geojson, tieOrder, cacheData, cacheCoords, fetches,
          raised, rendered, widgets, session, df, year, coords, CO2_pipeline,
          CO2_vs_gdp_pipeline, CO2_source_pipeline, df_3d, firstRun>>

(***************************************************************************)
(* Bounds of the model.                                                    *)
(***************************************************************************)
MaxRows == 3        \* rows of a dataset drawn for a loader or a pipeline
MaxSessionRows == 2 \* rows of the dataset a session is served
MaxFeatures == 2    \* features of a drawn boundary document
MaxRuns == 3        \* script runs of one process

(***************************************************************************)
(* Generic helpers.                                                        *)
(***************************************************************************)
Range(s) == {s[i] : i \in DOMAIN s}

SeqsUpTo(S, n) == UNION {[1..k -> S] : k \in 0..n}

RECURSIVE SumSeq(_)
SumSeq(s) == IF s = <<>> THEN 0 ELSE Head(s) + SumSeq(Tail(s))

RECURSIVE GCD(_, _)
GCD(a, b) == IF b = 0 THEN a ELSE GCD(b, a % b)

\* float division of two non-negative numbers: x/0 is inf, 0/0 is nan
Div(a, b) ==
    IF b = 0 THEN [n |-> IF a = 0 THEN 0 ELSE 1, d |-> 0]
    ELSE LET g == GCD(a, b) IN [n |-> a \div g, d |-> b \div g]

Float(a) == [n |-> a, d |-> 1]

IsFinite(f) == f.d # 0

FloatLess(f, g) == f.n * g.d < g.n * f.d

\* numpy.mean of a non-empty column of numbers
Mean(s) == Div(SumSeq(s), Len(s))

\* the elements of a finite set in increasing order of the strict total order Less
SortedSeq(S, Less(_, _)) ==
    [k \in 1..Cardinality(S) |->
        CHOOSE x \in S : Cardinality({y \in S : Less(y, x)}) = k - 1]

Reverse(s) == [i \in 1..Len(s) |-> s[Len(s) + 1 - i]]

\* Python's str order on the country names the model uses (code point order)
NameOrder == <<"Africa", "Antarctica", "Asia", "Chile", "Europe", "France",
               "North America", "Oceania", "Peru", "South America", "World">>

NameRank(c) == CHOOSE i \in DOMAIN NameOrder : NameOrder[i] = c

(***************************************************************************)
(* 1. load_data (lines 12-20).  A parsed CSV cell is Num(v) or NaN.        *)
(***************************************************************************)
Num(v) == [v |-> v]
NaN == [nan |-> TRUE]
isna(c) == "nan" \in DOMAIN c

NumericColumns == {"population", "gdp", "co2", "co2_per_capita",
                   "coal_co2", "oil_co2", "gas_co2"}

\* df.fillna(0), on one row
fillna(r) ==
    [k \in DOMAIN r |->
        IF k \in NumericColumns THEN (IF isna(r[k]) THEN 0 ELSE r[k].v) ELSE r[k]]

\* a faulty variant: the plain division, without the np.where guard
gdp_per_capita_unguarded(r) == Div(r.gdp, r.population)

\* np.where(df['population'] != 0, df['gdp'] / df['population'], 0), on one row
gdp_per_capita(r) ==
    IF r.population # 0 THEN Div(r.gdp, r.population) ELSE Float(0)

WithColumn(r, name, v) ==
    [k \in DOMAIN r \cup {name} |-> IF k = name THEN v ELSE r[k]]

\* the body of load_data after the fetch: read_csv result -> returned frame
load_data(csv) ==
    [i \in 1..Len(csv) |->
        LET r == fillna(csv[i]) IN WithColumn(r, "gdp_per_capita", gdp_per_capita(r))]


(***************************************************************************)
(* 2-5. Filters and the three aggregation pipelines.                       *)
(***************************************************************************)
continents == <<"World", "Asia", "Oceania", "Europe", "Africa", "North America",
                "South America", "Antarctica">>

continents_excl_world == <<"Asia", "Oceania", "Europe", "Africa", "North America",
                           "South America", "Antarctica">>

\* Series.isin(list)
isin(v, list) == v \in Range(list)

\* co2_label_map (lines 47-50) and source_label_map (lines 112-116)
co2_label_map == [total |-> "co2", per_capita |-> "co2_per_capita"]

source_label_map == [coal |-> "coal_co2", oil |-> "oil_co2", gas |-> "gas_co2"]

\* the slider's default (line 35) and step (line 34)
DefaultYear == 2010
YearStep == 5

Column(frame, name) == [i \in 1..Len(frame) |-> frame[i][name]]

\* numpy argsort, kind='quicksort', ascending.  Equal keys come out in an
\* order the algorithm does not promise: in input order on a build whose
\* quicksort happens to be stable, in another order otherwise (tieOrder).
argsort(items) ==
    LET n == Len(items)
        TieBefore(i, j) == IF tieOrder = "stable" THEN i < j ELSE i > j
        Before(i, j) == items[i] < items[j] \/ (items[i] = items[j] /\ TieBefore(i, j))
    IN  SortedSeq(1..n, Before)

\* pandas nargsort: a descending sort reverses the items, sorts ascending
\* and reverses the resulting indexer
nargsort(items, ascending) ==
    IF ascending THEN argsort(items)
    ELSE LET n == Len(items)
             p == argsort(Reverse(items))
         IN  Reverse([k \in 1..n |-> n + 1 - p[k]])

\* DataFrame.sort_values(by, ascending=...), default kind
sort_values(frame, by, ascending) ==
    LET indexer == nargsort(Column(frame, by), ascending)
    IN  [k \in 1..Len(frame) |-> frame[indexer[k]]]

\* lines 64-66: filter, groupby(['country','year'])[col].mean(), reset_index
CO2Groups(d, y, col) ==
    LET sel == SelectSeq(d, LAMBDA r : r.year <= y /\ isin(r.country, continents))
        KeyLess(a, b) == \/ NameRank(a[1]) < NameRank(b[1])
                         \/ (a[1] = b[1] /\ a[2] < b[2])
        keys == SortedSeq({<<r.country, r.year>> : r \in Range(sel)}, KeyLess)
    IN  [i \in 1..Len(keys) |->
            LET grp == SelectSeq(sel, LAMBDA r : <<r.country, r.year>> = keys[i])
            IN  [k \in {"country", "year", col} |->
                    IF k = "country" THEN keys[i][1]
                    ELSE IF k = "year" THEN keys[i][2]
                    ELSE Mean(Column(grp, col))]]

\* a faulty variant: the trailing sort_values('year') is missing
CO2_pipeline_unsorted(d, y, col) == CO2Groups(d, y, col)

\* CO2_pipeline (lines 63-68)
CO2_pipeline_of(d, y, col) == sort_values(CO2Groups(d, y, col), "year", TRUE)

\* the scatter query over a given selection of rows
ScatterGroups(sel) ==
    LET KeyLess(a, b) == \/ NameRank(a[1]) < NameRank(b[1])
                         \/ (a[1] = b[1] /\ FloatLess(a[2], b[2]))
        keys == SortedSeq({<<r.country, r.gdp_per_capita>> : r \in Range(sel)}, KeyLess)
    IN  [i \in 1..Len(keys) |->
            LET grp == SelectSeq(sel, LAMBDA r :
                           <<r.country, r.gdp_per_capita>> = keys[i])
            IN  [country |-> keys[i][1], gdp_per_capita |-> keys[i][2],
                 co2 |-> Mean(Column(grp, "co2"))]]

\* a faulty variant: only World is taken out, the continents stay
CO2_vs_gdp_pipeline_keeps_continents(d, y) ==
    ScatterGroups(SelectSeq(d, LAMBDA r : r.year = y /\ r.country # "World"))

\* CO2_vs_gdp_pipeline (lines 85-89): filter,
\* groupby(['country','gdp_per_capita'])['co2'].mean(), reset_index
CO2_vs_gdp_pipeline_of(d, y) ==
    ScatterGroups(SelectSeq(d, LAMBDA r : r.year = y /\ ~isin(r.country, continents)))

\* the bar query over a given selection of rows
SourceGroups(sel, col) ==
    LET KeyLess(a, b) == NameRank(a) < NameRank(b)
        keys == SortedSeq({r.country : r \in Range(sel)}, KeyLess)
        grouped ==
            [i \in 1..Len(keys) |->
                LET grp == SelectSeq(sel, LAMBDA r : r.country = keys[i])
                IN  [k \in {"country", col} |->
                        IF k = "country" THEN keys[i] ELSE SumSeq(Column(grp, col))]]
    IN  sort_values(grouped, col, FALSE)

\* a faulty variant: the list with World is used
CO2_source_pipeline_with_world(d, y, col) ==
    SourceGroups(SelectSeq(d, LAMBDA r : r.year = y /\ isin(r.country, continents)), col)

\* CO2_source_pipeline (lines 129-134): filter, groupby(['country']).sum(),
\* reset_index, sort_values(column, ascending=False)
CO2_source_pipeline_of(d, y, col) ==
    SourceGroups(SelectSeq(d, LAMBDA r :
                     r.year = y /\ isin(r.country, continents_excl_world)), col)

(***************************************************************************)
(* 6. load_country_coords (lines 154-179), the merge (line 183) and the    *)
(* frame handed to the globe (line 187).  A vertex is <<lon, lat>>.         *)
(***************************************************************************)
\* a faulty variant: every vertex of the geometry is averaged
RingOfAllVertices(geometry) ==
    LET Flat(ss) == [i \in 1..SumSeq([j \in 1..Len(ss) |-> Len(ss[j])]) |->
                        LET j == CHOOSE j \in 1..Len(ss) :
                                    /\ SumSeq([h \in 1..(j - 1) |-> Len(ss[h])]) < i
                                    /\ i <= SumSeq([h \in 1..j |-> Len(ss[h])])
                        IN  ss[j][i - SumSeq([h \in 1..(j - 1) |-> Len(ss[h])])]]
    IN  IF geometry.type = "Polygon" THEN Flat(geometry.coordinates)
        ELSE Flat(Flat(geometry.coordinates))

\* lines 165-168: the vertex list whose mean is taken
Ring(geometry) ==
    IF geometry.type = "Polygon" THEN geometry.coordinates[1]
    ELSE geometry.coordinates[1][1]

\* lines 161-177: one iteration of the loop, the row appended for a feature
CentroidRow(feat) ==
    LET ring == Ring(feat.geometry)
    IN  [country |-> feat.properties.name,
         latitude |-> Mean([i \in 1..Len(ring) |-> ring[i][2]]),
         longitude |-> Mean([i \in 1..Len(ring) |-> ring[i][1]])]

\* the body of load_country_coords after the fetch
load_country_coords(features) == [i \in 1..Len(features) |-> CentroidRow(features[i])]

\* the columns of a joined row: a name both frames carry (besides the key)
\* is suffixed _x on the left and _y on the right, as pandas does
JoinedRow(l, c) ==
    IF "latitude" \in DOMAIN l
    THEN [k \in (DOMAIN l \ {"latitude", "longitude"})
                \cup {"latitude_x", "longitude_x", "latitude_y", "longitude_y"} |->
            IF k = "latitude_x" THEN l.latitude
            ELSE IF k = "longitude_x" THEN l.longitude
            ELSE IF k = "latitude_y" THEN c.latitude
            ELSE IF k = "longitude_y" THEN c.longitude
            ELSE l[k]]
    ELSE WithColumn(WithColumn(l, "latitude", c.latitude), "longitude", c.longitude)

\* the right-hand columns of a left row nothing matches
Absent == [latitude |-> Div(0, 0), longitude |-> Div(0, 0)]

\* the rows a left row yields in a left join on "country" (exact match of
\* the names): one per matching right row, or itself once with nan
JoinRows(l, right) ==
    LET m == SelectSeq(right, LAMBDA c : c.country = l.country)
    IN  IF m = <<>> THEN <<JoinedRow(l, Absent)>>
        ELSE [j \in 1..Len(m) |-> JoinedRow(l, m[j])]

RECURSIVE Concat(_)
Concat(ss) == IF ss = <<>> THEN <<>> ELSE Head(ss) \o Concat(Tail(ss))

\* df.merge(coords, on="country", how="left") (line 183), coords having rows
merge(left, right) == Concat([i \in 1..Len(left) |-> JoinRows(left[i], right)])

\* df[df["year"] == year].copy() (line 187)
df_3d_of(d, y) == SelectSeq(d, LAMBDA r : r.year = y)

(***************************************************************************)
(* The script as a state machine.  One action per section of the script;   *)
(* each cached loader is a hit, a fetch that succeeds or a fetch that       *)
(* raises (st.cache_data stores return values only, never an exception).    *)
(***************************************************************************)
DefaultSession == [year |-> DefaultYear, measure |-> "total", source |-> "coal"]

Years(d) == {d[i].year : i \in 1..Len(d)}
MinYear(d) == CHOOSE y \in Years(d) : \A z \in Years(d) : y <= z
MaxYear(d) == CHOOSE y \in Years(d) : \A z \in Years(d) : z <= y

\* the values the year slider offers (lines 30-36)
YearOptions(d) == {y \in MinYear(d)..MaxYear(d) : (y - MinYear(d)) % YearStep = 0}

\* lines 30-36 raise: int(nan) when the frame has no rows, and st.slider
\* when its default value 2010 lies outside [min_value, max_value]
SliderRaises(d) ==
    IF d = <<>> THEN TRUE ELSE DefaultYear \notin MinYear(d)..MaxYear(d)

\* the four result tables of the current run
Tables == [TimeSeries |-> CO2_pipeline, ScatterPoints |-> CO2_vs_gdp_pipeline,
           SourceBars |-> CO2_source_pipeline, GlobeChoropleth |-> df_3d]

\* a fresh module namespace and an empty page
FreshRun ==
    /\ df' = <<>>
    /\ year' = 0
    /\ coords' = <<>>
    /\ CO2_pipeline' = <<>>
    /\ CO2_vs_gdp_pipeline' = <<>>
    /\ CO2_source_pipeline' = <<>>
    /\ df_3d' = <<>>
    /\ rendered' = {}
    /\ widgets' = {}
    /\ raised' = "none"

Environment == <<payload, geojson, tieOrder>>
Globals == <<df, year, coords, CO2_pipeline, CO2_vs_gdp_pipeline,
             CO2_source_pipeline, df_3d>>

\* line 22, load_data() answered from the cache
LoadDataHit ==
    /\ pc = "s1"
    /\ cacheData # <<>>
    /\ df' = cacheData[1]
    /\ pc' = "s2"
    /\ UNCHANGED <<Environment, runs, cacheData, cacheCoords, fetches, raised,
                   rendered, widgets, session, year, coords, CO2_pipeline,
                   CO2_vs_gdp_pipeline, CO2_source_pipeline, df_3d, firstRun>>

\* line 22, load_data() runs (lines 14-20) and its return value is cached
LoadDataFetch ==
    /\ pc = "s1"
    /\ cacheData = <<>>
    /\ fetches' = [fetches EXCEPT !.csv = @ + 1]
    /\ df' = load_data(payload)
    /\ cacheData' = <<load_data(payload)>>
    /\ pc' = "s2"
    /\ UNCHANGED <<Environment, runs, cacheCoords, raised, rendered, widgets,
                   session, year, coords, CO2_pipeline, CO2_vs_gdp_pipeline,
                   CO2_source_pipeline, df_3d, firstRun>>

\* line 22, requests.get, raise_for_status or read_csv raises: the run ends
LoadDataFail ==
    /\ pc = "s1"
    /\ cacheData = <<>>
    /\ fetches' = [fetches EXCEPT !.csv = @ + 1]
    /\ raised' = "DataUnavailable"
    /\ pc' = "aborted"
    /\ UNCHANGED <<Environment, runs, cacheData, cacheCoords, rendered, widgets,
                   session, Globals, firstRun>>

\* lines 27-36, the sidebar and the year slider
Sidebar ==
    /\ pc = "s2"
    /\ ~SliderRaises(df)
    /\ year' = session.year
    /\ widgets' = widgets \cup {"year"}
    /\ pc' = "s3"
    /\ UNCHANGED <<Environment, runs, cacheData, cacheCoords, fetches, raised,
                   rendered, session, df, coords, CO2_pipeline, CO2_vs_gdp_pipeline,
                   CO2_source_pipeline, df_3d, firstRun>>

\* lines 30-36 raise and the run ends
SidebarError ==
    /\ pc = "s2"
    /\ SliderRaises(df)
    /\ raised' = "SliderError"
    /\ pc' = "aborted"
    /\ UNCHANGED <<Environment, runs, cacheData, cacheCoords, fetches,
                   rendered, widgets, session, Globals, firstRun>>

\* lines 44-78, the measure radio, CO2_pipeline and the line chart
Section3 ==
    /\ pc = "s3"
    /\ widgets' = widgets \cup {"measure"}
    /\ CO2_pipeline' = CO2_pipeline_of(df, year, co2_label_map[session.measure])
    /\ rendered' = rendered \cup {"line"}
    /\ pc' = "s4"
    /\ UNCHANGED <<Environment, runs, cacheData, cacheCoords, fetches, raised,
                   session, df, year, coords, CO2_vs_gdp_pipeline,
                   CO2_source_pipeline, df_3d, firstRun>>

\* lines 83-101, CO2_vs_gdp_pipeline and the scatter chart
Section4 ==
    /\ pc = "s4"
    /\ CO2_vs_gdp_pipeline' = CO2_vs_gdp_pipeline_of(df, year)
    /\ rendered' = rendered \cup {"scatter"}
    /\ pc' = "s5"
    /\ UNCHANGED <<Environment, runs, cacheData, cacheCoords, fetches, raised,
                   widgets, session, df, year, coords, CO2_pipeline,
                   CO2_source_pipeline, df_3d, firstRun>>

\* lines 109-145, the source radio, CO2_source_pipeline and the bar chart
Section5 ==
    /\ pc = "s5"
    /\ widgets' = widgets \cup {"source"}
    /\ CO2_source_pipeline' =
           CO2_source_pipeline_of(df, year, source_label_map[session.source])
    /\ rendered' = rendered \cup {"bar"}
    /\ pc' = "s6"
    /\ UNCHANGED <<Environment, runs, cacheData, cacheCoords, fetches, raised,
                   session, df, year, coords, CO2_pipeline, CO2_vs_gdp_pipeline,
                   df_3d, firstRun>>

\* lines 151-152, the data table of CO2_pipeline
Section6 ==
    /\ pc = "s6"
    /\ rendered' = rendered \cup {"table"}
    /\ pc' = "s7"
    /\ UNCHANGED <<Environment, runs, cacheData, cacheCoords, fetches, raised,
                   widgets, session, Globals, firstRun>>

\* line 182, load_country_coords() answered from the cache
LoadCoordsHit ==
    /\ pc = "s7"
    /\ cacheCoords # <<>>
    /\ coords' = cacheCoords[1]
    /\ pc' = "s7m"
    /\ UNCHANGED <<Environment, runs, cacheData, cacheCoords, fetches, raised,
                   rendered, widgets, session, df, year, CO2_pipeline,
                   CO2_vs_gdp_pipeline, CO2_source_pipeline, df_3d, firstRun>>

\* line 182, load_country_coords() runs (lines 156-179) and is cached
LoadCoordsFetch ==
    /\ pc = "s7"
    /\ cacheCoords = <<>>
    /\ fetches' = [fetches EXCEPT !.geo = @ + 1]
    /\ coords' = load_country_coords(geojson)
    /\ cacheCoords' = <<load_country_coords(geojson)>>
    /\ pc' = "s7m"
    /\ UNCHANGED <<Environment, runs, cacheData, raised, rendered, widgets,
                   session, df, year, CO2_pipeline, CO2_vs_gdp_pipeline,
                   CO2_source_pipeline, df_3d, firstRun>>

\* line 182, requests.get or .json() raises: the run ends
LoadCoordsFail ==
    /\ pc = "s7"
    /\ cacheCoords = <<>>
    /\ fetches' = [fetches EXCEPT !.geo = @ + 1]
    /\ raised' = "DataUnavailable"
    /\ pc' = "aborted"
    /\ UNCHANGED <<Environment, runs, cacheData, cacheCoords, rendered, widgets,
                   session, Globals, firstRun>>

\* a faulty variant: the merged frame is written through to the cached
\* frame, as an in-place change of a shared cached object would
Section7SharedCache ==
    /\ pc = "s7m"
    /\ coords # <<>>
    /\ df' = merge(df, coords)
    /\ cacheData' = <<df'>>
    /\ df_3d' = df_3d_of(df', year)
    /\ rendered' = rendered \cup {"globe"}
    /\ pc' = "done"
    /\ UNCHANGED <<Environment, runs, cacheCoords, fetches, raised,
                   widgets, session, year, coords, CO2_pipeline,
                   CO2_vs_gdp_pipeline, CO2_source_pipeline>>
    /\ firstRun' = IF firstRun = <<>>
                   THEN <<[filter |-> session, tables |-> Tables']>> ELSE firstRun

\* lines 183-218, the merge, df_3d and the globe
Section7 ==
    /\ pc = "s7m"
    /\ coords # <<>>
    /\ df' = merge(df, coords)
    /\ df_3d' = df_3d_of(df', year)
    /\ rendered' = rendered \cup {"globe"}
    /\ pc' = "done"
    /\ UNCHANGED <<Environment, runs, cacheData, cacheCoords, fetches, raised,
                   widgets, session, year, coords, CO2_pipeline,
                   CO2_vs_gdp_pipeline, CO2_source_pipeline>>
    /\ firstRun' = IF firstRun = <<>>
                   THEN <<[filter |-> session, tables |-> Tables']>> ELSE firstRun

\* line 183 raises KeyError: a frame built from no rows has no "country"
\* column to merge on
MergeError ==
    /\ pc = "s7m"
    /\ coords = <<>>
    /\ raised' = "KeyError"
    /\ pc' = "aborted"
    /\ UNCHANGED <<Environment, runs, cacheData, cacheCoords, fetches,
                   rendered, widgets, session, Globals, firstRun>>

\* the user moves one of the widgets on the page: the session keeps the new
\* value and the script is run again from the top
FilterChange ==
    /\ pc \in {"done", "aborted"}
    /\ runs < MaxRuns
    /\ \E w \in widgets :
          \E v \in (IF w = "year" THEN YearOptions(df)
                    ELSE IF w = "measure" THEN DOMAIN co2_label_map
                    ELSE DOMAIN source_label_map) :
              /\ v # session[w]
              /\ session' = [session EXCEPT ![w] = v]
    /\ runs' = runs + 1
    /\ pc' = "s1"
    /\ FreshRun
    /\ UNCHANGED <<Environment, cacheData, cacheCoords, fetches, firstRun>>

Next ==
    \/ LoadDataHit \/ LoadDataFetch \/ LoadDataFail
    \/ Sidebar \/ SidebarError
    \/ Section3 \/ Section4 \/ Section5 \/ Section6
    \/ LoadCoordsHit \/ LoadCoordsFetch \/ LoadCoordsFail
    \/ Section7 \/ MergeError
    \/ FilterChange

(***************************************************************************)
(* Inputs.  A row of the parsed CSV, a linear ring, a feature.             *)
(***************************************************************************)
RawRow(c, y, pop, gdp, co2, percap, coal, oil, gas) ==
    [country |-> c, year |-> y, population |-> pop, gdp |-> gdp, co2 |-> co2,
     co2_per_capita |-> percap, coal_co2 |-> coal, oil_co2 |-> oil, gas_co2 |-> gas]

Feature(name, type, coordinates) ==
    [properties |-> [name |-> name],
     geometry |-> [type |-> type, coordinates |-> coordinates]]

RingA == <<<<0, 0>>, <<3, 0>>, <<3, 3>>, <<0, 0>>>>
RingB == <<<<10, 20>>, <<14, 20>>, <<14, 28>>, <<10, 20>>>>

\* the datasets and boundary documents the session specification draws from
SpecRows ==
    {RawRow("Asia", 2005, Num(4), Num(8), Num(5), Num(1), Num(2), Num(1), NaN),
     RawRow("Asia", 2010, Num(4), Num(8), Num(7), Num(2), Num(3), Num(3), Num(1)),
     RawRow("Europe", 2010, Num(2), Num(6), Num(6), Num(3), Num(3), Num(2), Num(1)),
     RawRow("France", 2010, Num(1), Num(3), Num(2), Num(2), Num(1), Num(1), NaN)}

SpecFeatures ==
    {Feature("France", "Polygon", <<RingA>>),
     Feature("Asia", "MultiPolygon", <<<<RingB>>, <<RingA>>>>)}

InitCommon ==
    /\ runs = 1
    /\ cacheData = <<>>
    /\ cacheCoords = <<>>
    /\ fetches = [csv |-> 0, geo |-> 0]
    /\ raised = "none"
    /\ rendered = {}
    /\ widgets = {}
    /\ df = <<>>
    /\ year = 0
    /\ coords = <<>>
    /\ CO2_pipeline = <<>>
    /\ CO2_vs_gdp_pipeline = <<>>
    /\ CO2_source_pipeline = <<>>
    /\ df_3d = <<>>
    /\ firstRun = <<>>

\* a process that has just started its first run, with default widget values
Init ==
    /\ pc = "s1"
    /\ payload \in SeqsUpTo(SpecRows, MaxSessionRows)
    /\ geojson \in SeqsUpTo(SpecFeatures, MaxFeatures)
    /\ tieOrder \in {"stable", "unstable"}
    /\ session = DefaultSession
    /\ InitCommon

Spec == Init /\ [][Next]_vars

(***************************************************************************)
(* Claims about the session (specification Spec).                          *)
(***************************************************************************)
Charts == {"line", "scatter", "bar", "table", "globe"}

\* C1: in a run in which a fetch failed, no chart or table has been rendered.
C1_NoPartialRendering == raised = "DataUnavailable" => rendered \cap Charts = {}

\* C2: over the runs of one process each of the two fetches is performed at
\* most once; a filter change never causes a re-fetch.
C2_EachFetchAtMostOnce == fetches.csv <= 1 /\ fetches.geo <= 1

\* the tables a first run over the served data gives for FilterState f
FreshTables(f) ==
    LET d == load_data(payload)
        c == load_country_coords(geojson)
    IN  [TimeSeries |-> CO2_pipeline_of(d, f.year, co2_label_map[f.measure]),
         ScatterPoints |-> CO2_vs_gdp_pipeline_of(d, f.year),
         SourceBars |-> CO2_source_pipeline_of(d, f.year, source_label_map[f.source]),
         GlobeChoropleth |-> df_3d_of(merge(d, c), f.year)]

\* C4: the four tables of a completed run are those a fresh first run gives
\* for the same FilterState, whatever runs came before; and a run whose
\* FilterState is that of the first completed run repeats its tables.
C4_TablesDependOnFilterOnly ==
    pc = "done" =>
        /\ Tables = FreshTables(session)
        /\ firstRun # <<>>
        /\ firstRun[1].filter = session => Tables = firstRun[1].tables

\* a third run that is back at the first run's FilterState, with data shown
C4_Witness ==
    /\ pc = "done"
    /\ runs >= 3
    /\ session = firstRun[1].filter
    /\ CO2_pipeline # <<>>
    /\ df_3d # <<>>
    /\ \E i \in 1..Len(df_3d) : IsFinite(df_3d[i].latitude)

\* the rows of the loaded dataset whose country no centroid row names
Unmatched(d, c) ==
    {i \in 1..Len(d) : \A j \in 1..Len(c) : c[j].country # d[i].country}

\* the merge at line 183 has been reached in this run
JoinReached == pc = "done" \/ raised = "KeyError"

\* row r of the joined frame carries the columns of row l of the dataset
Carries(r, l) == \A k \in DOMAIN l : k \in DOMAIN r /\ r[k] = l[k]

\* C9: when a country of the dataset has no centroid, the join raises no
\* error, every record of the selected year is in the frame handed to the
\* globe, and the unmatched country's latitude and longitude are absent.
C9_UnmatchedCountryIsNonFatal ==
    (JoinReached /\ Unmatched(cacheData[1], coords) # {}) =>
        /\ raised = "none"
        /\ \A i \in 1..Len(cacheData[1]) :
              cacheData[1][i].year = year =>
                  \E j \in 1..Len(df_3d) : Carries(df_3d[j], cacheData[1][i])
        /\ \A i \in Unmatched(cacheData[1], coords), j \in 1..Len(df_3d) :
              df_3d[j].country = cacheData[1][i].country =>
                  ~IsFinite(df_3d[j].latitude) /\ ~IsFinite(df_3d[j].longitude)

\* the same, for a centroid table that has at least one row
C9_HoldsWithSomeCentroid ==
    coords # <<>> => C9_UnmatchedCountryIsNonFatal

(***************************************************************************)
(* load_data as a function of the served CSV (specification LoadSpec).     *)
(***************************************************************************)
\* rows whose population and gdp cells are missing, zero or positive
LoadRows ==
    {RawRow("France", 2010, pop, gdp, Num(1), Num(1), NaN, Num(1), Num(1)) :
        pop \in {NaN, Num(0), Num(2)}, gdp \in {NaN, Num(0), Num(3), Num(4)}}

InitLoad ==
    /\ pc = "s1"
    /\ payload \in SeqsUpTo(LoadRows, MaxRows)
    /\ geojson = <<>>
    /\ tieOrder = "stable"
    /\ session = DefaultSession
    /\ InitCommon

NextLoad == LoadDataFetch \/ LoadDataFail

LoadSpec == InitLoad /\ [][NextLoad]_vars

\* the value of a CSV cell once missing values are replaced by 0
Filled(cell) == IF isna(cell) THEN 0 ELSE cell.v

\* C3: every loaded record has gdp_per_capita = gdp / population when the
\* (zero-filled) population is not 0 and gdp_per_capita = 0 when it is 0;
\* the value is never infinite or undefined.
C3_GdpPerCapita ==
    pc = "s2" =>
        /\ Len(df) = Len(payload)
        /\ \A i \in 1..Len(df) :
              LET pop == Filled(payload[i].population)
                  gdp == Filled(payload[i].gdp)
                  q == df[i].gdp_per_capita
              IN  /\ IsFinite(q)
                  /\ df[i].population = pop /\ df[i].gdp = gdp
                  /\ pop # 0 => q.n * pop = gdp * q.d
                  /\ pop = 0 => q.n = 0

\* a loaded dataset with a missing population beside a non-zero gdp, and a
\* record whose quotient is not a whole number
C3_Witness ==
    /\ pc = "s2"
    /\ \E i \in 1..Len(df) : isna(payload[i].population) /\ df[i].gdp = 3
    /\ \E i \in 1..Len(df) : df[i].gdp_per_capita = [n |-> 3, d |-> 2]

(***************************************************************************)
(* The three pipelines as functions of the dataset and the FilterState     *)
(* (specification PipelineSpec): any year may be selected, also one the    *)
(* slider would not offer.                                                 *)
(***************************************************************************)
PipeRow(c, y, v) ==
    RawRow(c, y, Num(2), Num(2 * v), Num(v + 1), Num(3 - v), Num(v), Num(3 - v), Num(1))

PipeRows ==
    {PipeRow(c, 2010, v) : c \in {"World", "Asia", "Europe", "France"}, v \in {1, 2}}
    \cup {PipeRow(c, 2005, 1) : c \in {"World", "Asia", "Europe", "France"}}

PipeYears == {2000, 2005, 2010}

InitPipe ==
    /\ pc = "s3"
    /\ runs = 1
    /\ payload \in SeqsUpTo(PipeRows, MaxRows)
    /\ geojson = <<>>
    /\ tieOrder \in {"stable", "unstable"}
    /\ df = load_data(payload)
    /\ cacheData = <<df>>
    /\ cacheCoords = <<>>
    /\ fetches = [csv |-> 1, geo |-> 0]
    /\ raised = "none"
    /\ rendered = {}
    /\ widgets = {"year"}
    /\ year \in PipeYears
    /\ session \in [year : {year}, measure : DOMAIN co2_label_map,
                    source : DOMAIN source_label_map]
    /\ coords = <<>>
    /\ CO2_pipeline = <<>>
    /\ CO2_vs_gdp_pipeline = <<>>
    /\ CO2_source_pipeline = <<>>
    /\ df_3d = <<>>
    /\ firstRun = <<>>

NextPipe == Section3 \/ Section4 \/ Section5 \/ Section6

PipelineSpec == InitPipe /\ [][NextPipe]_vars

RegionSet == {"World", "Asia", "Oceania", "Europe", "Africa", "North America",
              "South America", "Antarctica"}

\* C8: TimeSeries holds only rows of RegionSet with year <= the selected
\* year, in non-decreasing order of year; for a selected year below the
\* dataset's minimum the pipeline completes with the empty table.
C8_TimeSeriesOrdered ==
    pc \in {"s4", "s5", "s6", "s7"} =>
        /\ \A i \in 1..Len(CO2_pipeline) :
              /\ CO2_pipeline[i].year <= year
              /\ CO2_pipeline[i].country \in RegionSet
        /\ \A i, j \in 1..Len(CO2_pipeline) :
              i < j => CO2_pipeline[i].year <= CO2_pipeline[j].year
        /\ (df # <<>> /\ \A i \in 1..Len(df) : year < df[i].year) => CO2_pipeline = <<>>

\* a table of two regions that the grouping leaves in descending year order
C8_Witness ==
    /\ pc = "s4"
    /\ Len(CO2_pipeline) = 2
    /\ CO2_pipeline[1].year < CO2_pipeline[2].year
    /\ NameRank(CO2_pipeline[1].country) > NameRank(CO2_pipeline[2].country)

\* the pipeline has run for a year below the dataset's minimum
C8_WitnessBelowMinimum ==
    /\ pc = "s4"
    /\ df # <<>>
    /\ \A i \in 1..Len(df) : year < df[i].year /\ df[i].country \in RegionSet
    /\ CO2_pipeline = <<>>

\* C5: no row of ScatterPoints names a member of RegionSet, and every row
\* comes from a record of the selected year.
C5_ScatterExcludesRegions ==
    pc \in {"s5", "s6", "s7"} =>
        \A i \in 1..Len(CO2_vs_gdp_pipeline) :
            /\ CO2_vs_gdp_pipeline[i].country \notin RegionSet
            /\ \E k \in 1..Len(df) :
                  /\ df[k].year = year
                  /\ df[k].country = CO2_vs_gdp_pipeline[i].country
                  /\ df[k].gdp_per_capita = CO2_vs_gdp_pipeline[i].gdp_per_capita

\* a scatter row, from a dataset that also has a continent in the selected year
C5_Witness ==
    /\ pc = "s5"
    /\ CO2_vs_gdp_pipeline # <<>>
    /\ \E k \in 1..Len(df) : df[k].year = year /\ df[k].country \in RegionSet \ {"World"}

\* the rows of SourceBars in the order the sort received them: that of the
\* grouping, which is the order of the country names
BeforeSort(a, b) == NameRank(a.country) < NameRank(b.country)

\* C6: SourceBars is in descending order of the selected source column, and
\* rows of equal value keep the relative order they had before the sort.
C6_BarsDescendingStable ==
    pc \in {"s6", "s7"} =>
        LET col == source_label_map[session.source]
        IN  \A i, j \in 1..Len(CO2_source_pipeline) :
                i < j =>
                    /\ CO2_source_pipeline[i][col] >= CO2_source_pipeline[j][col]
                    /\ CO2_source_pipeline[i][col] = CO2_source_pipeline[j][col]
                         => BeforeSort(CO2_source_pipeline[i], CO2_source_pipeline[j])

\* the descending order alone
C6_BarsDescending ==
    pc \in {"s6", "s7"} =>
        LET col == source_label_map[session.source]
        IN  \A i, j \in 1..Len(CO2_source_pipeline) :
                i < j => CO2_source_pipeline[i][col] >= CO2_source_pipeline[j][col]

\* the records of country c in the selected year
RecordsOf(c) == {k \in 1..Len(df) : df[k].year = year /\ df[k].country = c}

RECURSIVE SumOver(_, _)
SumOver(K, col) ==
    IF K = {} THEN 0
    ELSE LET k == CHOOSE k \in K : TRUE IN df[k][col] + SumOver(K \ {k}, col)

\* C7: SourceBars has exactly one row per member of RegionSet other than
\* World that has a record in the selected year, with the sum of the selected
\* source field over those records; World and non-regions never appear.
C7_BarsOnePerRegion ==
    pc \in {"s6", "s7"} =>
        LET col == source_label_map[session.source]
            present == {c \in RegionSet \ {"World"} : RecordsOf(c) # {}}
        IN  /\ {CO2_source_pipeline[i].country : i \in 1..Len(CO2_source_pipeline)} = present
            /\ Len(CO2_source_pipeline) = Cardinality(present)
            /\ \A i \in 1..Len(CO2_source_pipeline) :
                  CO2_source_pipeline[i][col]
                      = SumOver(RecordsOf(CO2_source_pipeline[i].country), col)

\* a single bar that sums two records of one continent, from a dataset
\* that has a record of World in the selected year
C7_Witness ==
    /\ pc = "s6"
    /\ RecordsOf("World") # {}
    /\ Len(CO2_source_pipeline) = 1
    /\ Cardinality(RecordsOf(CO2_source_pipeline[1].country)) = 2
    /\ CO2_source_pipeline[1][source_label_map[session.source]] = 3

(***************************************************************************)
(* load_country_coords as a function of the served document                *)
(* (specification CoordsSpec).                                             *)
(***************************************************************************)
Polygons == {<<RingA>>, <<RingB>>, <<RingA, RingB>>, <<RingB, RingA>>}

MultiPolygons == {<<p>> : p \in Polygons} \cup {<<p, q>> : p \in Polygons, q \in Polygons}

CoordFeatures ==
    {Feature(n, "Polygon", p) : n \in {"France", "Peru"}, p \in Polygons}
    \cup {Feature(n, "MultiPolygon", m) : n \in {"France", "Peru"}, m \in MultiPolygons}

InitCoords ==
    /\ pc = "s7"
    /\ payload = <<>>
    /\ geojson \in SeqsUpTo(CoordFeatures, MaxFeatures)
    /\ tieOrder = "stable"
    /\ session = DefaultSession
    /\ InitCommon

NextCoords == LoadCoordsFetch \/ LoadCoordsFail

CoordsSpec == InitCoords /\ [][NextCoords]_vars

\* the one ring the claim names
FirstRing(g) ==
    IF g.type = "Polygon" THEN Head(g.coordinates) ELSE Head(Head(g.coordinates))

\* C10: a feature's centroid is the mean longitude and mean latitude of its
\* first ring (Polygon) or of the first ring of its first sub-polygon
\* (MultiPolygon); features that agree on that ring have the same centroid,
\* whatever their other rings and sub-polygons.
C10_CentroidOfFirstRing ==
    pc = "s7m" =>
        /\ Len(coords) = Len(geojson)
        /\ \A i \in 1..Len(coords) :
              LET ring == FirstRing(geojson[i].geometry)
                  n == Len(ring)
              IN  /\ coords[i].country = geojson[i].properties.name
                  /\ IsFinite(coords[i].longitude) /\ IsFinite(coords[i].latitude)
                  /\ coords[i].longitude.n * n
                       = coords[i].longitude.d * SumSeq([k \in 1..n |-> ring[k][1]])
                  /\ coords[i].latitude.n * n
                       = coords[i].latitude.d * SumSeq([k \in 1..n |-> ring[k][2]])
        /\ \A i, j \in 1..Len(coords) :
              FirstRing(geojson[i].geometry) = FirstRing(geojson[j].geometry) =>
                  /\ coords[i].longitude = coords[j].longitude
                  /\ coords[i].latitude = coords[j].latitude

\* a Polygon and a MultiPolygon with the same first ring and further rings
C10_Witness ==
    /\ pc = "s7m"
    /\ Len(coords) = 2
    /\ geojson[1].geometry = [type |-> "Polygon", coordinates |-> <<RingA, RingB>>]
    /\ geojson[2].geometry =
           [type |-> "MultiPolygon", coordinates |-> <<<<RingA, RingB>>, <<RingB>>>>]
    /\ coords[1].longitude = [n |-> 3, d |-> 2]
    /\ coords[2].latitude = [n |-> 3, d |-> 4]

=============================================================================
